---- MODULE Spec2Model ----
(***************************************************************************)
(* A model of the mqttrs codec: encode_slice and the per-packet to_buffer  *)
(* encoders, decode / read_header / read_packet and the per-packet         *)
(* from_buffer decoders.  Bytes are the integers 0..255, strings and byte  *)
(* arrays are sequences of bytes.  A panic of the Rust code (an index out  *)
(* of bounds, a Buf read past the end) is the outcome "Panic".             *)
(***************************************************************************)
EXTENDS Integers, Sequences, FiniteSets, TLC

VARIABLES
    op,       \* the operation that produced this state
    packet,   \* the Packet last handed to encode_slice
    dest,     \* the destination slice: its capacity and the bytes written from offset 0
    enc,      \* the outcome of the last encode_slice / write_length
    buf,      \* the bytes given explicitly in the decoder's input buffer
    buflen,   \* the input buffer's length (bytes past Len(buf) are zero)
    pos,      \* the input buffer's read position (bytes consumed so far)
    res,      \* the outcome of the last read_header / decode
    sent,     \* the packets whose frames were appended to the stream, oldest first
    rcvd      \* the packets the decode calls on the stream returned, oldest first

vars == <<op, packet, dest, enc, buf, buflen, pos, res, sent, rcvd>>

(***************************************************************************)
(* Bounds of the model.                                                    *)
(***************************************************************************)
MaxCap == 40
MaxFrames == 2
MaxSlack == 2
MaxLenBytes == 5
MaxBody == 4
MaxField == 5
MaxSteps == 3

(***************************************************************************)
(* Option, Result and bit helpers.                                         *)
(***************************************************************************)
None == [some |-> FALSE]
Some(v) == [some |-> TRUE, val |-> v]

Pow2(n) == 2 ^ n
Bit(b, i) == (b \div Pow2(i)) % 2
Min(a, b) == IF a < b THEN a ELSE b

\* s[from+1 .. to] in Rust's half-open notation &s[from..to], 0-based
Slice(s, from, to) == SubSeq(s, from + 1, to)

(***************************************************************************)
(* errors.rs: the Error enum.                                              *)
(***************************************************************************)
WriteZero == [name |-> "WriteZero"]
InvalidPid == [name |-> "InvalidPid"]
InvalidQos(n) == [name |-> "InvalidQos", n |-> n]
InvalidConnectReturnCode(n) == [name |-> "InvalidConnectReturnCode", n |-> n]
InvalidProtocol(s, n) == [name |-> "InvalidProtocol", s |-> s, n |-> n]
InvalidHeader == [name |-> "InvalidHeader"]
InvalidLength == [name |-> "InvalidLength"]
InvalidString == [name |-> "InvalidString"]

\* Result values: Ok(v), Err(e), and the abort of the call
Ok(v) == [kind |-> "Ok", val |-> v]
Err(e) == [kind |-> "Err", err |-> e]
Panic == [kind |-> "Panic"]

(***************************************************************************)
(* qos.rs: QoS.                                                            *)
(***************************************************************************)
QoSLevels == {"AtMostOnce", "AtLeastOnce", "ExactlyOnce"}

QoS_to_u8(q) ==
    CASE q = "AtMostOnce" -> 0
      [] q = "AtLeastOnce" -> 1
      [] q = "ExactlyOnce" -> 2

\* a from_u8 that looked at the two low bits alone
QoS_from_u8_low_bits(byte) ==
    CASE byte % 4 = 0 -> Ok("AtMostOnce")
      [] byte % 4 = 1 -> Ok("AtLeastOnce")
      [] byte % 4 = 2 -> Ok("ExactlyOnce")
      [] OTHER -> Err(InvalidQos(byte))

QoS_from_u8(byte) ==
    CASE byte = 0 -> Ok("AtMostOnce")
      [] byte = 1 -> Ok("AtLeastOnce")
      [] byte = 2 -> Ok("ExactlyOnce")
      [] OTHER -> Err(InvalidQos(byte))

\* QosPid: AtMostOnce carries no Pid, the other two carry one
QosPid_AtMostOnce == [qos |-> "AtMostOnce"]
QosPid_AtLeastOnce(pid) == [qos |-> "AtLeastOnce", pid |-> pid]
QosPid_ExactlyOnce(pid) == [qos |-> "ExactlyOnce", pid |-> pid]

\* a pid() that gave the Pid of ExactlyOnce alone
QosPid_pid_exactly_only(qp) ==
    CASE qp.qos = "AtMostOnce" -> None
      [] qp.qos = "AtLeastOnce" -> None
      [] qp.qos = "ExactlyOnce" -> Some(qp.pid)

\* QosPid::pid and QosPid::qos
QosPid_pid(qp) ==
    CASE qp.qos = "AtMostOnce" -> None
      [] qp.qos = "AtLeastOnce" -> Some(qp.pid)
      [] qp.qos = "ExactlyOnce" -> Some(qp.pid)

QosPid_qos(qp) ==
    CASE qp = QosPid_AtMostOnce -> "AtMostOnce"
      [] qp = QosPid_AtLeastOnce(qp.pid) -> "AtLeastOnce"
      [] qp = QosPid_ExactlyOnce(qp.pid) -> "ExactlyOnce"

(***************************************************************************)
(* encoder.rs: the write primitives.  A writer w is the destination slice  *)
(* (cap bytes), the bytes written so far (offset = Len(w.out)) and the     *)
(* error that ended the call, if any: after an error the `?` operator      *)
(* skips every later write.                                                *)
(***************************************************************************)
Writer(cap) == [cap |-> cap, out |-> <<>>, err |-> "none"]

check_remaining(w, len) ==
    IF w.err # "none" THEN w
    ELSE IF w.cap - Len(w.out) < len THEN [w EXCEPT !.err = "WriteZero"]
    ELSE w

write_u8(w, val) ==
    IF w.err # "none" THEN w
    ELSE IF Len(w.out) >= w.cap THEN [w EXCEPT !.err = "Panic"]
    ELSE [w EXCEPT !.out = Append(w.out, val)]

write_u16(w, val) == write_u8(write_u8(w, (val \div 256) % 256), val % 256)

RECURSIVE write_all(_, _)
write_all(w, bytes) ==
    IF bytes = <<>> THEN w
    ELSE write_all(write_u8(w, Head(bytes)), Tail(bytes))

write_bytes(w, bytes) == write_all(write_u16(w, Len(bytes) % 65536), bytes)

write_string(w, string) == write_bytes(w, string)

\* the loop of write_length: seven bits per byte, low group first
RECURSIVE write_length_loop(_, _)
write_length_loop(w, x) ==
    LET rest == x \div 128
        byte == IF rest > 0 THEN (x % 128) + 128 ELSE x % 128
        w2   == write_u8(w, byte)
    IN IF rest <= 0 THEN w2 ELSE write_length_loop(w2, rest)

\* a write_length whose match arms were each one too wide
length_bytes_wide(len) ==
    CASE len >= 0 /\ len <= 128 -> 1
      [] len >= 129 /\ len <= 16384 -> 2
      [] len >= 16385 /\ len <= 2097152 -> 3
      [] len >= 2097153 /\ len <= 268435456 -> 4
      [] OTHER -> 0

\* the number of length bytes write_length reserves for len (0: out of range)
length_bytes(len) ==
    CASE len >= 0 /\ len <= 127 -> 1
      [] len >= 128 /\ len <= 16383 -> 2
      [] len >= 16384 /\ len <= 2097151 -> 3
      [] len >= 2097152 /\ len <= 268435455 -> 4
      [] OTHER -> 0

\* write_length: the writer afterwards, and the value returned on success
write_length(w, len) ==
    IF w.err # "none" THEN [w |-> w, ret |-> 0]
    ELSE IF length_bytes(len) = 0
         THEN [w |-> [w EXCEPT !.err = "InvalidLength"], ret |-> 0]
    ELSE LET checked == check_remaining(w, len + length_bytes(len))
         IN [w |-> write_length_loop(checked, len),
             ret |-> len + length_bytes(len)]

\* utils.rs: Pid::to_buffer, put_u16 of the Pid, big-endian; put_u16 aborts
\* before it stores anything when fewer than two bytes of room are left
Pid_to_buffer(w, pid) ==
    IF w.err # "none" THEN w
    ELSE IF w.cap - Len(w.out) < 2 THEN [w EXCEPT !.err = "Panic"]
    ELSE write_u16(w, pid)

(***************************************************************************)
(* decoder.rs: the read primitives.  A read takes the slice b and the      *)
(* 0-based offset off of the cursor and gives OkAt(value, new offset),     *)
(* Err(e) or Panic.                                                        *)
(***************************************************************************)
OkAt(v, off) == [kind |-> "Ok", val |-> v, off |-> off]

\* core::str::from_utf8 accepts exactly the well-formed UTF-8 sequences
RECURSIVE Utf8Valid(_)
Utf8Valid(s) ==
    LET n == Len(s)
        Cont(i) == i <= n /\ s[i] >= 128 /\ s[i] <= 191
        In(i, lo, hi) == i <= n /\ s[i] >= lo /\ s[i] <= hi
        Rest(k) == Utf8Valid(SubSeq(s, k + 1, n))
    IN IF n = 0 THEN TRUE
       ELSE LET b == s[1]
            IN CASE b <= 127 -> Rest(1)
                 [] b >= 194 /\ b <= 223 -> Cont(2) /\ Rest(2)
                 [] b = 224 -> In(2, 160, 191) /\ Cont(3) /\ Rest(3)
                 [] (b >= 225 /\ b <= 236) \/ b = 238 \/ b = 239 ->
                        Cont(2) /\ Cont(3) /\ Rest(3)
                 [] b = 237 -> In(2, 128, 159) /\ Cont(3) /\ Rest(3)
                 [] b = 240 -> In(2, 144, 191) /\ Cont(3) /\ Cont(4) /\ Rest(4)
                 [] b >= 241 /\ b <= 243 -> Cont(2) /\ Cont(3) /\ Cont(4) /\ Rest(4)
                 [] b = 244 -> In(2, 128, 143) /\ Cont(3) /\ Cont(4) /\ Rest(4)
                 [] OTHER -> FALSE

\* a read_bytes that also refused a field reaching the end of the buffer
read_bytes_strict(b, off) ==
    IF Len(b) - off < 2 THEN Panic
    ELSE LET len == b[off + 1] * 256 + b[off + 2]
         IN IF len >= Len(b) - (off + 2) THEN Err(InvalidLength)
            ELSE OkAt(Slice(b, off + 2, off + 2 + len), off + 2 + len)

\* read_bytes: get_u16 aborts when fewer than two bytes remain
read_bytes(b, off) ==
    IF Len(b) - off < 2 THEN Panic
    ELSE LET len == b[off + 1] * 256 + b[off + 2]
         IN IF len > Len(b) - (off + 2) THEN Err(InvalidLength)
            ELSE OkAt(Slice(b, off + 2, off + 2 + len), off + 2 + len)

read_string(b, off) ==
    LET check(r) == IF r.kind # "Ok" THEN r
                    ELSE IF Utf8Valid(r.val) THEN r ELSE Err(InvalidString)
    IN check(read_bytes(b, off))

\* utils.rs: TryFrom<u16> for Pid
Pid_try_from(u) == IF u = 0 THEN Err(InvalidPid) ELSE Ok(u)

\* an Add that kept the wrapped sum as it is
Pid_add_no_skip(p, u) ==
    LET n == (p + u) % 65536
    IN IF n = 0 THEN Panic ELSE Ok(n)

\* utils.rs: Add<u16> for Pid: overflowing_add, one more after a wrap, and
\* NonZeroU16::new(n).unwrap()
Pid_add(p, u) ==
    LET n == (p + u) % 65536
        wrapped == p + u >= 65536
        m == IF wrapped THEN n + 1 ELSE n
    IN IF m > 65535 \/ m = 0 THEN Panic ELSE Ok(m)

\* a Sub without the arm for a difference of 0
Pid_sub_no_zero_arm(p, u) ==
    LET n == (p - u) % 65536
        wrapped == u > p
        m == IF wrapped THEN n - 1 ELSE n
    IN IF m < 0 \/ m = 0 THEN Panic ELSE Ok(m)

\* utils.rs: Sub<u16> for Pid: overflowing_sub, u16::MAX for 0, one less
\* after a wrap, and NonZeroU16::new(n).unwrap()
Pid_sub(p, u) ==
    LET n == (p - u) % 65536
        wrapped == u > p
        m == CASE n = 0 -> 65535
               [] wrapped -> n - 1
               [] OTHER -> n
    IN IF m < 0 \/ m = 0 THEN Panic ELSE Ok(m)

\* a Pid::from_buffer that read the low byte first
Pid_from_buffer_little_endian(b, off) ==
    LET at(r) == IF r.kind = "Ok" THEN OkAt(r.val, off + 2) ELSE r
    IN IF Len(b) - off < 2 THEN Panic
       ELSE at(Pid_try_from(b[off + 2] * 256 + b[off + 1]))

\* utils.rs: Pid::from_buffer, get_u16 then try_from
Pid_from_buffer(b, off) ==
    LET at(r) == IF r.kind = "Ok" THEN OkAt(r.val, off + 2) ELSE r
    IN IF Len(b) - off < 2 THEN Panic
       ELSE at(Pid_try_from(b[off + 1] * 256 + b[off + 2]))

(***************************************************************************)
(* subscribe.rs: the entry decoders and the iterators over an entry        *)
(* buffer.  An iteration gives the items up to the first None, or aborts.  *)
(***************************************************************************)
SubscribeTopic_from_buffer(b, off) ==
    LET entry(t, q) == IF q.kind # "Ok" THEN q
                       ELSE OkAt([topic_path |-> t.val, qos |-> q.val], t.off + 1)
        qos(t) == IF t.kind # "Ok" THEN t
                  ELSE IF t.off >= Len(b) THEN Panic
                  ELSE entry(t, QoS_from_u8(b[t.off + 1]))
    IN qos(read_string(b, off))

SubscribeReturnCodes_Failure == [failure |-> TRUE]
SubscribeReturnCodes_Success(qos) == [failure |-> FALSE, qos |-> qos]

SubscribeReturnCodes_from_buffer(b, off) ==
    LET success(q) == IF q.kind # "Ok" THEN q
                      ELSE OkAt(SubscribeReturnCodes_Success(q.val), off + 1)
    IN IF off >= Len(b) THEN Panic
       ELSE IF b[off + 1] = 128 THEN OkAt(SubscribeReturnCodes_Failure, off + 1)
       ELSE success(QoS_from_u8(b[off + 1]))

SubscribeReturnCodes_to_u8(rc) == IF rc.failure THEN 128 ELSE QoS_to_u8(rc.qos)

Items(s) == [panic |-> FALSE, items |-> s]
Aborted(s) == [panic |-> TRUE, items |-> s]

\* `for topic in self.topics()`: next() until it gives None
RECURSIVE SubscribeTopicIter(_, _, _)
SubscribeTopicIter(b, off, acc) ==
    LET step(r) == CASE r.kind = "Panic" -> Aborted(acc)
                     [] r.kind = "Err" -> Items(acc)
                     [] OTHER -> SubscribeTopicIter(b, r.off, Append(acc, r.val))
    IN step(SubscribeTopic_from_buffer(b, off))

RECURSIVE ReturnCodeIter(_, _, _)
ReturnCodeIter(b, off, acc) ==
    LET step(r) == CASE r.kind = "Panic" -> Aborted(acc)
                     [] r.kind = "Err" -> Items(acc)
                     [] OTHER -> ReturnCodeIter(b, r.off, Append(acc, r.val))
    IN step(SubscribeReturnCodes_from_buffer(b, off))

RECURSIVE UnsubscribeIter(_, _, _)
UnsubscribeIter(b, off, acc) ==
    LET step(r) == CASE r.kind = "Panic" -> Aborted(acc)
                     [] r.kind = "Err" -> Items(acc)
                     [] OTHER -> UnsubscribeIter(b, r.off, Append(acc, r.val))
    IN step(read_string(b, off))

\* subscribe.rs: the constructors, which set the entry buffer to &[]
Subscribe_new(pid, topics) == [typ |-> "Subscribe", pid |-> pid, topic_buf |-> <<>>]
Unsubscribe_new(pid, topics) == [typ |-> "Unsubscribe", pid |-> pid, topic_buf |-> <<>>]
Suback_new(pid, return_codes) ==
    [typ |-> "Suback", pid |-> pid, return_codes_buf |-> <<>>]

Subscribe_topics(s) == SubscribeTopicIter(s.topic_buf, 0, <<>>)
Unsubscribe_topics(u) == UnsubscribeIter(u.topic_buf, 0, <<>>)
Suback_return_codes(s) == ReturnCodeIter(s.return_codes_buf, 0, <<>>)

(***************************************************************************)
(* connect.rs: Protocol, Connect and Connack encoders.  A to_buffer gives  *)
(* the writer afterwards and the value it returns on success.              *)
(***************************************************************************)
Protocols == {"MQTT311", "MQIsdp"}

NameMQTT == <<77, 81, 84, 84>>
NameMQIsdp == <<77, 81, 73, 115, 100, 112>>

\* the byte literals Protocol::to_buffer writes
Protocol_wire(protocol) ==
    IF protocol = "MQTT311"
    THEN <<0, 4, 77, 81, 84, 84, 4>>
    ELSE <<0, 4, 77, 81, 105, 115, 100, 112, 4>>

Protocol_to_buffer(w, protocol) == write_all(w, Protocol_wire(protocol))

OptLen(o) == IF o.some THEN Len(o.val) + 2 ELSE 0

Connect_flags(c) ==
    (IF c.clean_session THEN 2 ELSE 0)
    + (IF c.username.some THEN 128 ELSE 0)
    + (IF c.password.some THEN 64 ELSE 0)
    + (IF c.last_will.some
       THEN 4 + QoS_to_u8(c.last_will.val.qos) * 8
              + (IF c.last_will.val.retain THEN 32 ELSE 0)
       ELSE 0)

\* a length that left out the two keep-alive bytes
Connect_length_no_keep_alive(c) ==
    (6 + 1 + 1) + (2 + Len(c.client_id))
    + OptLen(c.username) + OptLen(c.password)
    + (IF c.last_will.some
       THEN Len(c.last_will.val.message) + Len(c.last_will.val.topic) + 4
       ELSE 0)

Connect_length(c) ==
    (6 + 1 + 1) + (2 + Len(c.client_id)) + 2
    + OptLen(c.username) + OptLen(c.password)
    + (IF c.last_will.some
       THEN Len(c.last_will.val.message) + Len(c.last_will.val.topic) + 4
       ELSE 0)

Connect_to_buffer(c, w) ==
    LET length == Connect_length(c)
        w1 == check_remaining(w, length + 1)
        w2 == write_u8(w1, 16)
        wl == write_length(w2, length)
        w3 == Protocol_to_buffer(wl.w, c.protocol)
        w4 == write_u8(w3, Connect_flags(c))
        w5 == write_u16(w4, c.keep_alive)
        w6 == write_string(w5, c.client_id)
        w7 == IF c.last_will.some
              THEN write_bytes(write_string(w6, c.last_will.val.topic),
                               c.last_will.val.message)
              ELSE w6
        w8 == IF c.username.some THEN write_string(w7, c.username.val) ELSE w7
        w9 == IF c.password.some THEN write_bytes(w8, c.password.val) ELSE w8
    IN [w |-> w9, ret |-> wl.ret + 1]

ConnectReturnCodes ==
    <<"Accepted", "RefusedProtocolVersion", "RefusedIdentifierRejected",
      "ServerUnavailable", "BadUsernamePassword", "NotAuthorized">>

ConnectReturnCode_to_u8(code) ==
    CHOOSE i \in 0..5 : ConnectReturnCodes[i + 1] = code

\* a from_u8 that took every byte above 4 for NotAuthorized
ConnectReturnCode_from_u8_lenient(byte) ==
    IF byte <= 4 THEN Ok(ConnectReturnCodes[byte + 1]) ELSE Ok("NotAuthorized")

ConnectReturnCode_from_u8(byte) ==
    IF byte <= 5 THEN Ok(ConnectReturnCodes[byte + 1])
    ELSE Err(InvalidConnectReturnCode(byte))

Connack_to_buffer(c, w) ==
    LET w1 == check_remaining(w, 4)
        w2 == write_u8(w1, 32)
        w3 == write_u8(w2, 2)
        w4 == write_u8(w3, IF c.session_present THEN 1 ELSE 0)
        w5 == write_u8(w4, ConnectReturnCode_to_u8(c.code))
    IN [w |-> w5, ret |-> 4]

(***************************************************************************)
(* publish.rs: Publish::to_buffer.                                         *)
(***************************************************************************)
Publish_header(p) ==
    (CASE p.qospid.qos = "AtMostOnce" -> 48
       [] p.qospid.qos = "AtLeastOnce" -> 50
       [] p.qospid.qos = "ExactlyOnce" -> 52)
    + (IF p.dup THEN 8 ELSE 0)
    + (IF p.retain THEN 1 ELSE 0)

Publish_length(p) ==
    Len(p.topic_name)
    + (IF p.qospid.qos = "AtMostOnce" THEN 2 ELSE 4)
    + Len(p.payload)

Publish_to_buffer(p, w) ==
    LET w1 == check_remaining(w, 1)
        w2 == write_u8(w1, Publish_header(p))
        wl == write_length(w2, Publish_length(p))
        w3 == write_string(wl.w, p.topic_name)
        w4 == IF p.qospid.qos = "AtMostOnce" THEN w3
              ELSE Pid_to_buffer(w3, p.qospid.pid)
        w5 == write_all(w4, p.payload)
    IN [w |-> w5, ret |-> wl.ret + 1]

(***************************************************************************)
(* subscribe.rs: Subscribe, Unsubscribe and Suback encoders.  Each walks   *)
(* its entry iterator; an iterator that aborts aborts the encoder at the   *)
(* first walk.                                                             *)
(***************************************************************************)
Abort(w) == IF w.err = "none" THEN [w EXCEPT !.err = "Panic"] ELSE w

RECURSIVE SumTopicLen(_, _)
SumTopicLen(items, extra) ==
    IF items = <<>> THEN 0
    ELSE Len(Head(items).topic_path) + extra + SumTopicLen(Tail(items), extra)

RECURSIVE SumStrLen(_)
SumStrLen(items) ==
    IF items = <<>> THEN 0 ELSE 2 + Len(Head(items)) + SumStrLen(Tail(items))

RECURSIVE write_topics(_, _)
write_topics(w, items) ==
    IF items = <<>> THEN w
    ELSE write_topics(
             write_u8(write_string(w, Head(items).topic_path),
                      QoS_to_u8(Head(items).qos)),
             Tail(items))

RECURSIVE write_strings(_, _)
write_strings(w, items) ==
    IF items = <<>> THEN w
    ELSE write_strings(write_string(w, Head(items)), Tail(items))

RECURSIVE write_codes(_, _)
write_codes(w, items) ==
    IF items = <<>> THEN w
    ELSE write_codes(write_u8(w, SubscribeReturnCodes_to_u8(Head(items))),
                     Tail(items))

Subscribe_to_buffer(s, w) ==
    LET w1 == check_remaining(w, 1)
        w2 == write_u8(w1, 130)
        it == Subscribe_topics(s)
        length == 2 + SumTopicLen(it.items, 2 + 1)
        wl == write_length(w2, length)
        w3 == Pid_to_buffer(wl.w, s.pid)
        w4 == write_topics(w3, it.items)
    IN IF it.panic THEN [w |-> Abort(w2), ret |-> 0]
       ELSE [w |-> w4, ret |-> wl.ret + 1]

Unsubscribe_to_buffer(u, w) ==
    LET it == Unsubscribe_topics(u)
        length == 2 + SumStrLen(it.items)
        w1 == check_remaining(w, 1)
        w2 == write_u8(w1, 162)
        wl == write_length(w2, length)
        w3 == Pid_to_buffer(wl.w, u.pid)
        w4 == write_strings(w3, it.items)
    IN IF it.panic THEN [w |-> Abort(w), ret |-> 0]
       ELSE [w |-> w4, ret |-> wl.ret + 1]

Suback_to_buffer(s, w) ==
    LET length == 2 + Len(s.return_codes_buf)
        w1 == check_remaining(w, 1)
        w2 == write_u8(w1, 144)
        wl == write_length(w2, length)
        w3 == Pid_to_buffer(wl.w, s.pid)
        it == Suback_return_codes(s)
        w4 == write_codes(w3, it.items)
    IN IF it.panic THEN [w |-> Abort(w4), ret |-> 0]
       ELSE [w |-> w4, ret |-> wl.ret + 1]

(***************************************************************************)
(* encoder.rs: encode_slice.                                               *)
(***************************************************************************)
\* the arms that write a fixed header byte, a fixed length and maybe a Pid
Fixed_to_buffer(w, header, length, p) ==
    LET w1 == check_remaining(w, 2 + length)
        w2 == write_u8(w1, header)
        w3 == write_u8(w2, length)
        w4 == IF length = 2 THEN Pid_to_buffer(w3, p.pid) ELSE w3
    IN [w |-> w4, ret |-> 2 + length]

encode_slice_at(p, w) ==
    CASE p.typ = "Connect" -> Connect_to_buffer(p, w)
      [] p.typ = "Connack" -> Connack_to_buffer(p, w)
      [] p.typ = "Publish" -> Publish_to_buffer(p, w)
      [] p.typ = "Puback" -> Fixed_to_buffer(w, 64, 2, p)
      [] p.typ = "Pubrec" -> Fixed_to_buffer(w, 80, 2, p)
      [] p.typ = "Pubrel" -> Fixed_to_buffer(w, 98, 2, p)
      [] p.typ = "Pubcomp" -> Fixed_to_buffer(w, 112, 2, p)
      [] p.typ = "Subscribe" -> Subscribe_to_buffer(p, w)
      [] p.typ = "Suback" -> Suback_to_buffer(p, w)
      [] p.typ = "Unsubscribe" -> Unsubscribe_to_buffer(p, w)
      [] p.typ = "Unsuback" -> Fixed_to_buffer(w, 176, 2, p)
      [] p.typ = "Pingreq" -> Fixed_to_buffer(w, 192, 0, p)
      [] p.typ = "Pingresp" -> Fixed_to_buffer(w, 208, 0, p)
      [] p.typ = "Disconnect" -> Fixed_to_buffer(w, 224, 0, p)

\* what the caller sees: Ok(n), Err(e) or the abort
Outcome(r) ==
    CASE r.w.err = "none" -> [kind |-> "Ok", n |-> r.ret]
      [] r.w.err = "Panic" -> Panic
      [] OTHER -> Err([name |-> r.w.err])

encode_slice(p, cap) == encode_slice_at(p, Writer(cap))

(***************************************************************************)
(* connect.rs, publish.rs, subscribe.rs: the body decoders.                *)
(***************************************************************************)
Protocol_new(name, level) ==
    CASE name = NameMQIsdp /\ level = 3 -> Ok("MQIsdp")
      [] name = NameMQTT /\ level = 4 -> Ok("MQTT311")
      [] OTHER -> Err(InvalidProtocol(name, 0))

Protocol_from_buffer(b, off) ==
    LET at(name, r) == IF r.kind = "Ok" THEN OkAt(r.val, name.off + 1) ELSE r
        level(name) == IF name.kind # "Ok" THEN name
                       ELSE IF name.off >= Len(b) THEN Panic
                       ELSE at(name, Protocol_new(name.val, b[name.off + 1]))
    IN level(read_string(b, off))

\* the last-will part of Connect::from_buffer, read when flag bit 2 is set
LastWill_from_buffer(b, off, connect_flags) ==
    LET will(topic, message, qos) ==
            IF qos.kind # "Ok" THEN qos
            ELSE OkAt(Some([topic |-> topic.val,
                            message |-> message.val,
                            qos |-> qos.val,
                            retain |-> Bit(connect_flags, 5) = 1]),
                      message.off)
        will_qos(topic, message) ==
            IF message.kind # "Ok" THEN message
            ELSE will(topic, message, QoS_from_u8((connect_flags \div 8) % 4))
        will_message(topic) ==
            IF topic.kind # "Ok" THEN topic
            ELSE will_qos(topic, read_bytes(b, topic.off))
    IN IF Bit(connect_flags, 2) = 1 THEN will_message(read_string(b, off))
       ELSE OkAt(None, off)

\* an optional length-prefixed field, read when its flag bit is set
Optional_from_buffer(b, off, present, isString) ==
    LET some(r) == IF r.kind # "Ok" THEN r ELSE OkAt(Some(r.val), r.off)
    IN IF ~present THEN OkAt(None, off)
       ELSE IF isString THEN some(read_string(b, off))
       ELSE some(read_bytes(b, off))

Connect_from_buffer(b, off) ==
    LET connect(protocol, connect_flags, keep_alive, client_id, last_will,
                username, password) ==
            IF password.kind # "Ok" THEN password
            ELSE OkAt([typ |-> "Connect",
                       protocol |-> protocol.val,
                       keep_alive |-> keep_alive,
                       client_id |-> client_id.val,
                       clean_session |-> Bit(connect_flags, 1) = 1,
                       last_will |-> last_will.val,
                       username |-> username.val,
                       password |-> password.val],
                      password.off)
        read_password(protocol, connect_flags, keep_alive, client_id, last_will,
                      username) ==
            IF username.kind # "Ok" THEN username
            ELSE connect(protocol, connect_flags, keep_alive, client_id,
                         last_will, username,
                         Optional_from_buffer(b, username.off,
                                              Bit(connect_flags, 6) = 1, FALSE))
        read_username(protocol, connect_flags, keep_alive, client_id, last_will) ==
            IF last_will.kind # "Ok" THEN last_will
            ELSE read_password(protocol, connect_flags, keep_alive, client_id,
                               last_will,
                               Optional_from_buffer(b, last_will.off,
                                                    Bit(connect_flags, 7) = 1, TRUE))
        read_last_will(protocol, connect_flags, keep_alive, client_id) ==
            IF client_id.kind # "Ok" THEN client_id
            ELSE read_username(protocol, connect_flags, keep_alive, client_id,
                               LastWill_from_buffer(b, client_id.off, connect_flags))
        read_client_id(protocol) ==
            IF protocol.kind # "Ok" THEN protocol
            ELSE IF protocol.off + 2 >= Len(b) THEN Panic
            ELSE read_last_will(protocol,
                                b[protocol.off + 1],
                                b[protocol.off + 2] * 256 + b[protocol.off + 3],
                                read_string(b, protocol.off + 3))
    IN read_client_id(Protocol_from_buffer(b, off))

Connack_from_buffer(b, off) ==
    LET connack(flags, code) ==
            IF code.kind # "Ok" THEN code
            ELSE OkAt([typ |-> "Connack",
                       session_present |-> (flags % 2 = 1),
                       code |-> code.val],
                      off + 2)
    IN IF off + 1 >= Len(b) THEN Panic
       ELSE connack(b[off + 1], ConnectReturnCode_from_u8(b[off + 2]))

\* a Publish::from_buffer that took the payload from the end of the topic
Publish_from_buffer_topic_end(header, remaining_len, b, off) ==
    LET payload_end == off + remaining_len
        publish(topic_name, pid) ==
            IF pid.kind # "Ok" THEN pid
            ELSE IF topic_name.off > payload_end \/ payload_end > Len(b) THEN Panic
            ELSE OkAt([typ |-> "Publish",
                       dup |-> header.dup,
                       qospid |-> CASE header.qos = "AtMostOnce" -> QosPid_AtMostOnce
                                    [] header.qos = "AtLeastOnce" ->
                                           QosPid_AtLeastOnce(pid.val)
                                    [] header.qos = "ExactlyOnce" ->
                                           QosPid_ExactlyOnce(pid.val),
                       retain |-> header.retain,
                       topic_name |-> topic_name.val,
                       payload |-> Slice(b, topic_name.off, payload_end)],
                      pid.off)
        qospid(topic_name) ==
            IF topic_name.kind # "Ok" THEN topic_name
            ELSE IF header.qos = "AtMostOnce"
                 THEN publish(topic_name, OkAt(0, topic_name.off))
            ELSE publish(topic_name, Pid_from_buffer(b, topic_name.off))
    IN qospid(read_string(b, off))

Publish_from_buffer(header, remaining_len, b, off) ==
    LET payload_end == off + remaining_len
        publish(topic_name, pid) ==
            IF pid.kind # "Ok" THEN pid
            ELSE IF pid.off > payload_end \/ payload_end > Len(b) THEN Panic
            ELSE OkAt([typ |-> "Publish",
                       dup |-> header.dup,
                       qospid |-> CASE header.qos = "AtMostOnce" -> QosPid_AtMostOnce
                                    [] header.qos = "AtLeastOnce" ->
                                           QosPid_AtLeastOnce(pid.val)
                                    [] header.qos = "ExactlyOnce" ->
                                           QosPid_ExactlyOnce(pid.val),
                       retain |-> header.retain,
                       topic_name |-> topic_name.val,
                       payload |-> Slice(b, pid.off, payload_end)],
                      pid.off)
        qospid(topic_name) ==
            IF topic_name.kind # "Ok" THEN topic_name
            ELSE IF header.qos = "AtMostOnce"
                 THEN publish(topic_name, OkAt(0, topic_name.off))
            ELSE publish(topic_name, Pid_from_buffer(b, topic_name.off))
    IN qospid(read_string(b, off))

\* Subscribe / Unsubscribe / Suback ::from_buffer: the Pid, then the rest
\* of the remaining-length span kept as the entry buffer
Entries_from_buffer(typ, remaining_len, b, off) ==
    LET payload_end == off + remaining_len
        entries(pid) ==
            IF pid.kind # "Ok" THEN pid
            ELSE IF pid.off > payload_end \/ payload_end > Len(b) THEN Panic
            ELSE OkAt(IF typ = "Suback"
                      THEN [typ |-> typ, pid |-> pid.val,
                            return_codes_buf |-> Slice(b, pid.off, payload_end)]
                      ELSE [typ |-> typ, pid |-> pid.val,
                            topic_buf |-> Slice(b, pid.off, payload_end)],
                      pid.off)
    IN entries(Pid_from_buffer(b, off))

Subscribe_from_buffer(remaining_len, b, off) ==
    Entries_from_buffer("Subscribe", remaining_len, b, off)

Unsubscribe_from_buffer(remaining_len, b, off) ==
    Entries_from_buffer("Unsubscribe", remaining_len, b, off)

Suback_from_buffer(remaining_len, b, off) ==
    Entries_from_buffer("Suback", remaining_len, b, off)

\* Packet::Puback(Pid::from_buffer(buf)?) and its four siblings
PidPacket_from_buffer(typ, b, off) ==
    LET packet_of(pid) == IF pid.kind # "Ok" THEN pid
                          ELSE OkAt([typ |-> typ, pid |-> pid.val], pid.off)
    IN packet_of(Pid_from_buffer(b, off))

(***************************************************************************)
(* decoder.rs: Header::new, read_header, read_packet, decode.  The input   *)
(* Buf is the explicit bytes b, its length n (bytes past Len(b) are zero)  *)
(* and the read position p; an operation gives its outcome and the         *)
(* position it leaves.                                                     *)
(***************************************************************************)
PacketTypes ==
    <<"Connect", "Connack", "Publish", "Puback", "Pubrec", "Pubrel", "Pubcomp",
      "Subscribe", "Suback", "Unsubscribe", "Unsuback", "Pingreq", "Pingresp",
      "Disconnect">>

\* a Header::new that demanded flag nibble 0000 of every type but Publish
flags_ok_zero(t, flags) ==
    CASE t = 3 -> TRUE
      [] t \in 1..14 -> flags = 0
      [] OTHER -> FALSE

\* the flag nibble Header::new demands of packet type t (Publish: any)
flags_ok(t, flags) ==
    CASE t = 3 -> TRUE
      [] t \in {6, 8, 10} -> flags = 2
      [] t \in {1, 2, 4, 5, 7, 9, 11, 12, 13, 14} -> flags = 0
      [] OTHER -> FALSE

Header_new(hd) ==
    LET header(qos) == IF qos.kind # "Ok" THEN qos
                       ELSE Ok([typ |-> PacketTypes[hd \div 16],
                                dup |-> Bit(hd, 3) # 0,
                                qos |-> qos.val,
                                retain |-> hd % 2 = 1])
    IN IF ~flags_ok(hd \div 16, hd % 16) THEN Err(InvalidHeader)
       ELSE header(QoS_from_u8((hd \div 2) % 4))

\* buf.bytes()[i] of a buffer whose bytes past the explicit ones are zero
At(b, i) == IF i < Len(b) THEN b[i + 1] ELSE 0

NotYet == [kind |-> "None"]
Outcome_at(r, p) == [r |-> r, pos |-> p]

\* a read_header that shifted each group by 8 bits
len_add_shift8(len, byte, i) == len + (byte % 128) * Pow2(i * 8)

\* len += (byte as usize & 0x7F) << (pos * 7)
len_add(len, byte, i) == len + (byte % 128) * Pow2(i * 7)

\* the `for pos in 0..=3` loop of read_header, at iteration i with len so far
RECURSIVE read_header_loop(_, _, _, _, _)
read_header_loop(b, n, p, i, len) ==
    LET some(header, len2) ==
            IF header.kind # "Ok" THEN Outcome_at(header, p + 1)
            ELSE Outcome_at([kind |-> "Some", header |-> header.val, len |-> len2],
                            p + 1 + (i + 1))
        group(byte, len2) ==
            IF byte >= 128 THEN read_header_loop(b, n, p, i + 1, len2)
            ELSE IF n - p < 2 + i + len2 THEN Outcome_at(NotYet, p)
            ELSE some(Header_new(At(b, p)), len2)
        next(byte) == group(byte, len_add(len, byte, i))
    IN IF i > 3 THEN Outcome_at(Err(InvalidHeader), p)
       ELSE IF ~(n - p > i + 1) THEN Outcome_at(NotYet, p)
       ELSE next(At(b, p + i + 1))

read_header(b, n, p) == read_header_loop(b, n, p, 0, 0)

\* header.rs: TryFrom<u8> for Header
Header_try_from(hd) ==
    LET t == hd \div 16
        low == hd % 16
        ok == CASE t = 3 -> TRUE
                [] t \in {6, 8, 10} -> low = 2
                [] t \in {1, 2, 4, 5, 7, 9, 11, 12, 13, 14} -> low = 0
                [] OTHER -> FALSE
        header(qos) == IF qos.kind # "Ok" THEN qos
                       ELSE Ok([typ |-> PacketTypes[t],
                                dup |-> Bit(hd, 3) # 0,
                                qos |-> qos.val,
                                retain |-> hd % 2 = 1])
    IN IF ~ok THEN Err(InvalidHeader)
       ELSE header(QoS_from_u8((hd \div 2) % 4))

\* header.rs: read_header on the slice data of n bytes, at iteration pos of
\* `for pos in 1..5` with len so far: data[pos] aborts past the end of the
\* slice, and the test for more length bytes is `byte & 0b1000000`
RECURSIVE header_read_header(_, _, _, _)
header_read_header(data, n, i, len) ==
    LET found(header, len2) ==
            IF header.kind # "Ok" THEN header
            ELSE [kind |-> "Some", header |-> header.val,
                  remaining_length |-> len2, packet_length |-> 1 + i + len2]
        group(byte, len2) ==
            IF Bit(byte, 6) # 0 THEN header_read_header(data, n, i + 1, len2)
            ELSE IF n < 1 + i + len2 THEN NotYet
            ELSE found(Header_try_from(At(data, 0)), len2)
    IN IF i > 4 THEN Err(InvalidHeader)
       ELSE IF i >= n THEN Panic
       ELSE group(At(data, i), len + (At(data, i) % 128) * Pow2((i - 1) * 7))

read_packet(header, b) ==
    LET typ == header.typ
        packet_of(r) == IF r.kind = "Ok" THEN Ok(r.val) ELSE r
    IN CASE typ \in {"Pingreq", "Pingresp", "Disconnect"} ->
                packet_of(OkAt([typ |-> typ], 0))
         [] typ = "Connect" -> packet_of(Connect_from_buffer(b, 0))
         [] typ = "Connack" -> packet_of(Connack_from_buffer(b, 0))
         [] typ = "Publish" -> packet_of(Publish_from_buffer(header, Len(b), b, 0))
         [] typ \in {"Puback", "Pubrec", "Pubrel", "Pubcomp", "Unsuback"} ->
                packet_of(PidPacket_from_buffer(typ, b, 0))
         [] typ = "Subscribe" -> packet_of(Subscribe_from_buffer(Len(b), b, 0))
         [] typ = "Suback" -> packet_of(Suback_from_buffer(Len(b), b, 0))
         [] typ = "Unsubscribe" -> packet_of(Unsubscribe_from_buffer(Len(b), b, 0))

\* &buf.bytes()[..remaining_len] at position p
Body(b, p, remaining_len) == [i \in 1..remaining_len |-> At(b, p + i - 1)]

\* a decode that propagated read_packet's error before advancing the buffer
decode_error_first(b, n, p) ==
    LET packet_at(h, r) ==
            CASE r.kind = "Ok" ->
                     Outcome_at([kind |-> "Some", packet |-> r.val], h.pos + h.r.len)
              [] r.kind = "Err" -> Outcome_at(r, h.pos)
              [] OTHER -> Outcome_at(Panic, h.pos)
        body(h) ==
            IF h.r.kind # "Some" THEN h
            ELSE packet_at(h, read_packet(h.r.header, Body(b, h.pos, h.r.len)))
    IN body(read_header(b, n, p))

decode(b, n, p) ==
    LET packet_at(h, r) ==
            CASE r.kind = "Ok" ->
                     Outcome_at([kind |-> "Some", packet |-> r.val], h.pos + h.r.len)
              [] r.kind = "Err" -> Outcome_at(r, h.pos + h.r.len)
              [] OTHER -> Outcome_at(Panic, h.pos)
        body(h) ==
            IF h.r.kind # "Some" THEN h
            ELSE packet_at(h, read_packet(h.r.header, Body(b, h.pos, h.r.len)))
    IN body(read_header(b, n, p))

(***************************************************************************)
(* The Packet values the model encodes.                                    *)
(***************************************************************************)
DocClient == <<100, 111, 99, 95, 99, 108, 105, 101, 110, 116>>
TopicTest == <<116, 101, 115, 116>>
PayloadHello == <<104, 101, 108, 108, 111>>

KeepAlives == {30, 258}
ClientIds == {<<>>, DocClient}
Pids == {10, 65535}
Topics == {<<>>, TopicTest}
Payloads == {<<>>, PayloadHello}

LastWills ==
    {None} \cup
    {Some([topic |-> <<119>>, message |-> <<7>>, qos |-> q, retain |-> r]) :
        q \in QoSLevels, r \in BOOLEAN}
Usernames == {None, Some(<<117>>)}
Passwords == {None, Some(<<112, 119>>)}

Connects ==
    {[typ |-> "Connect", protocol |-> pr, keep_alive |-> ka, client_id |-> id,
      clean_session |-> cs, last_will |-> lw, username |-> un, password |-> pw] :
        pr \in Protocols, ka \in KeepAlives, id \in ClientIds, cs \in BOOLEAN,
        lw \in LastWills, un \in Usernames, pw \in Passwords}

Connacks ==
    {[typ |-> "Connack", session_present |-> sp, code |-> ConnectReturnCodes[i]] :
        sp \in BOOLEAN, i \in 1..6}

QosPids ==
    {QosPid_AtMostOnce} \cup {QosPid_AtLeastOnce(p) : p \in Pids}
                        \cup {QosPid_ExactlyOnce(p) : p \in Pids}

Publishes ==
    {[typ |-> "Publish", dup |-> d, qospid |-> qp, retain |-> r,
      topic_name |-> t, payload |-> pl] :
        d \in BOOLEAN, qp \in QosPids, r \in BOOLEAN, t \in Topics, pl \in Payloads}

PidPackets ==
    {[typ |-> t, pid |-> p] :
        t \in {"Puback", "Pubrec", "Pubrel", "Pubcomp", "Unsuback"}, p \in Pids}

EmptyPackets == {[typ |-> t] : t \in {"Pingreq", "Pingresp", "Disconnect"}}

\* entry buffers: empty (what the constructors build), well-formed entries,
\* and entries the iterators stop at
SubscribeBufs == {<<>>, <<0, 1, 97, 1>>, <<0, 0, 3>>}
UnsubscribeBufs == {<<>>, <<0, 1, 97>>, <<0, 5, 97>>}
SubackBufs == {<<>>, <<0>>, <<128, 2>>, <<3>>}

Subscribes ==
    {[typ |-> "Subscribe", pid |-> p, topic_buf |-> b] :
        p \in Pids, b \in SubscribeBufs}
Unsubscribes ==
    {[typ |-> "Unsubscribe", pid |-> p, topic_buf |-> b] :
        p \in Pids, b \in UnsubscribeBufs}
Subacks ==
    {[typ |-> "Suback", pid |-> p, return_codes_buf |-> b] :
        p \in Pids, b \in SubackBufs}

Packets ==
    Connects \cup Connacks \cup Publishes \cup PidPackets \cup EmptyPackets
    \cup Subscribes \cup Unsubscribes \cup Subacks

(***************************************************************************)
(* The state machine: a caller that encodes a packet into a destination    *)
(* slice, hands a prefix of the slice to the decoder, and decodes.         *)
(***************************************************************************)
NoPacket == [typ |-> "none"]
NoDest == [cap |-> 0, out |-> <<>>]
NoOutcome == [kind |-> "none"]

Init ==
    /\ op = "init"
    /\ packet = NoPacket
    /\ dest = NoDest
    /\ enc = NoOutcome
    /\ buf = <<>>
    /\ buflen = 0
    /\ pos = 0
    /\ res = NoOutcome
    /\ sent = <<>>
    /\ rcvd = <<>>

\* the first k bytes of a zero-filled destination after a write
DestBytes(d, k) == [i \in 1..k |-> At(d.out, i - 1)]

Max(a, b) == IF a > b THEN a ELSE b

\* the bytes a large destination receives for p
Written(p) == Len(encode_slice(p, MaxCap).w.out)

Encode ==
    /\ op = "init"
    /\ \E p \in Packets : \E cap \in 0..Min(MaxCap, Written(p) + MaxSlack) :
         LET r == encode_slice(p, cap)
         IN /\ op' = "encode"
            /\ packet' = p
            /\ dest' = [cap |-> cap, out |-> r.w.out]
            /\ enc' = Outcome(r)
            /\ buf' = <<>>
            /\ buflen' = 0
            /\ pos' = 0
            /\ res' = NoOutcome
            /\ UNCHANGED <<sent, rcvd>>

Transmit ==
    /\ op = "encode"
    /\ enc.kind = "Ok"
    /\ \E k \in 0..Min(dest.cap, Max(enc.n, Len(dest.out))) :
         /\ op' = "transmit"
         /\ buf' = DestBytes(dest, k)
         /\ buflen' = k
         /\ pos' = 0
         /\ res' = NoOutcome
         /\ UNCHANGED <<packet, dest, enc, sent, rcvd>>

Decode ==
    /\ op = "transmit"
    /\ LET d == decode(buf, buflen, pos)
       IN /\ res' = d.r
          /\ pos' = d.pos
    /\ op' = "decode"
    /\ UNCHANGED <<packet, dest, enc, buf, buflen, sent, rcvd>>

\* the caller builds a Subscribe, Unsubscribe or Suback from entries, walks
\* its entry iterator and encodes it; sent holds the entries supplied, res
\* the walk of the iterator
NewEntries ==
    /\ op = "init"
    /\ \E typ \in {"Subscribe", "Unsubscribe", "Suback"} : \E pid \in Pids :
       \E entries \in
            CASE typ = "Subscribe" ->
                     {<<>>, <<[topic_path |-> TopicTest, qos |-> "AtLeastOnce"]>>,
                      <<[topic_path |-> <<>>, qos |-> "AtMostOnce"],
                        [topic_path |-> TopicTest, qos |-> "ExactlyOnce"]>>}
              [] typ = "Unsubscribe" -> {<<>>, <<TopicTest>>, <<<<>>, TopicTest>>}
              [] typ = "Suback" ->
                     {<<>>, <<SubscribeReturnCodes_Failure>>,
                      <<SubscribeReturnCodes_Success("AtMostOnce"),
                        SubscribeReturnCodes_Success("ExactlyOnce")>>} :
       \E cap \in {0, 4, MaxCap} :
         LET p == CASE typ = "Subscribe" -> Subscribe_new(pid, entries)
                    [] typ = "Unsubscribe" -> Unsubscribe_new(pid, entries)
                    [] typ = "Suback" -> Suback_new(pid, entries)
             it == CASE typ = "Subscribe" -> Subscribe_topics(p)
                     [] typ = "Unsubscribe" -> Unsubscribe_topics(p)
                     [] typ = "Suback" -> Suback_return_codes(p)
             r == encode_slice(p, cap)
         IN /\ packet' = p
            /\ sent' = <<entries>>
            /\ res' = [kind |-> "entries", panic |-> it.panic, items |-> it.items]
            /\ dest' = [cap |-> cap, out |-> r.w.out]
            /\ enc' = Outcome(r)
    /\ op' = "new"
    /\ UNCHANGED <<buf, buflen, pos, rcvd>>

Next ==
    \/ Encode
    \/ Transmit
    \/ Decode
    \/ NewEntries

Spec == Init /\ [][Next]_vars

(***************************************************************************)
(* Claims about encode_slice followed by decode, checked under Spec.       *)
(***************************************************************************)
SomePacket(p) == [kind |-> "Some", packet |-> p]

\* C1: every packet that encode_slice encoded, returning n, decodes from
\* those n bytes to Ok(Some(p)) with p the packet encoded, and decode
\* consumes exactly n bytes.
C1_RoundTrip ==
    (op = "decode" /\ enc.kind = "Ok" /\ buflen = enc.n)
        => (res = SomePacket(packet) /\ pos = enc.n)

\* C2: decode on a strict prefix of the n encoded bytes returns Ok(None)
\* with the position unmoved; decode on all n bytes returns the packet and
\* consumes n bytes.
C2_PartialRead ==
    (op = "decode" /\ enc.kind = "Ok" /\ buflen <= enc.n)
        => IF buflen < enc.n
           THEN res = NotYet /\ pos = 0
           ELSE res = SomePacket(packet) /\ pos = enc.n

\* C5: into a destination shorter than the packet's full encoding,
\* encode_slice returns Err(WriteZero); it never indexes past the end.
C5_EncodeCapacity ==
    (op = "encode" /\ dest.cap < Written(packet)) => enc = Err(WriteZero)

\* C6: a successful encode_slice returns the number of bytes it wrote, and
\* the remaining-length field it wrote (one byte for the packets here, all
\* shorter than 128 bytes) counts the bytes written after that field.
C6_LengthAccounting ==
    (op = "encode" /\ enc.kind = "Ok")
        => /\ enc.n = Len(dest.out)
           /\ Len(dest.out) >= 2
           /\ dest.out[2] = Len(dest.out) - 2

(***************************************************************************)
(* A stream: complete encoded packets appended back to back to one buffer, *)
(* then successive decode calls on it.                                     *)
(***************************************************************************)
DocConnect(protocol) ==
    [typ |-> "Connect", protocol |-> protocol, keep_alive |-> 30,
     client_id |-> DocClient, clean_session |-> TRUE, last_will |-> None,
     username |-> None, password |-> None]

StreamPackets ==
    {DocConnect(pr) : pr \in Protocols}
    \cup {[typ |-> "Publish", dup |-> FALSE, qospid |-> qp, retain |-> FALSE,
           topic_name |-> TopicTest, payload |-> PayloadHello] : qp \in QosPids}
    \cup {[typ |-> "Connack", session_present |-> FALSE, code |-> "Accepted"],
          [typ |-> "Puback", pid |-> 10],
          [typ |-> "Pingreq"]}

\* the bytes buf[..n] of a successful encode_slice(p, buf) returning n
Encoded(p) ==
    LET bytes(r) == DestBytes([out |-> r.w.out], r.ret)
    IN bytes(encode_slice(p, MaxCap))

Send ==
    /\ op \in {"init", "send"}
    /\ Len(sent) < MaxFrames
    /\ \E p \in StreamPackets :
         /\ Outcome(encode_slice(p, MaxCap)).kind = "Ok"
         /\ sent' = Append(sent, p)
         /\ buf' = buf \o Encoded(p)
         /\ buflen' = buflen + Len(Encoded(p))
    /\ op' = "send"
    /\ UNCHANGED <<packet, dest, enc, pos, res, rcvd>>

Recv ==
    /\ \/ op = "send"
       \/ op = "recv" /\ res.kind = "Some"
    /\ LET d == decode(buf, buflen, pos)
       IN /\ res' = d.r
          /\ pos' = d.pos
          /\ rcvd' = IF d.r.kind = "Some" THEN Append(rcvd, d.r.packet) ELSE rcvd
    /\ op' = "recv"
    /\ UNCHANGED <<packet, dest, enc, buf, buflen, sent>>

NextStream ==
    \/ Send
    \/ Recv

SpecStream == Init /\ [][NextStream]_vars

RECURSIVE FrameEnd(_, _)
FrameEnd(frames, k) ==
    IF k = 0 THEN 0 ELSE FrameEnd(frames, k - 1) + Len(Encoded(frames[k]))

\* C3: on a buffer of k complete encoded packets, each decode call returns
\* the next packet in the order sent and leaves the position at the end of
\* that packet's frame; the call after the last returns Ok(None).
C3_StreamDecoding ==
    op = "recv"
        => \/ /\ res.kind = "Some"
              /\ Len(rcvd) <= Len(sent)
              /\ rcvd = SubSeq(sent, 1, Len(rcvd))
              /\ pos = FrameEnd(sent, Len(rcvd))
           \/ /\ res = NotYet
              /\ rcvd = sent
              /\ pos = buflen

(***************************************************************************)
(* Bytes off the wire: a buffer is loaded with bytes that no encoder of    *)
(* this crate need have produced, and read_header or decode is called on   *)
(* it.  A buffer of buflen bytes holds the bytes of buf and then zeros.    *)
(***************************************************************************)
RECURSIVE SeqsUpTo(_, _)
SeqsUpTo(S, k) ==
    IF k = 0 THEN {<<>>}
    ELSE LET shorter == SeqsUpTo(S, k - 1)
         IN shorter \cup {Append(q, x) : q \in {t \in shorter : Len(t) = k - 1}, x \in S}

\* every first byte, followed by remaining length 0 and up to two more zeros
FirstByteInputs ==
    {<<hd>> \o zeros : hd \in 0..255, zeros \in {<<0>>, <<0, 0, 0>>}}

\* a Connect, a Publish, a reserved and a QoS-3 first byte, then length bytes
LengthFirstBytes == {16, 48, 0, 54}
LengthBytes == {0, 1, 128, 255}
LengthInputs ==
    {<<hd>> \o q : hd \in LengthFirstBytes, q \in SeqsUpTo(LengthBytes, MaxLenBytes)}

\* how many bytes of zeros follow the loaded bytes
Fills == {0, 1, 127, 128, 16384, 2097151, 268435455}

\* one frame of each packet type, with a body of 0..MaxBody small bytes
FrameFirstBytes == {16, 32, 48, 50, 64, 80, 98, 112, 130, 144, 162, 176, 192, 208, 224}
BodyBytes == {0, 1, 2}
FrameInputs ==
    {<<hd, Len(body)>> \o body :
        hd \in FrameFirstBytes, body \in SeqsUpTo(BodyBytes, MaxBody)}

Load ==
    /\ op = "init"
    /\ \/ \E b \in FirstByteInputs \cup FrameInputs :
            buf' = b /\ buflen' = Len(b)
       \/ \E b \in LengthInputs : \E fill \in Fills :
            buf' = b /\ buflen' = Len(b) + fill
    /\ op' = "loaded"
    /\ UNCHANGED <<packet, dest, enc, pos, res, sent, rcvd>>

ReadHeader ==
    /\ op = "loaded"
    /\ LET h == read_header(buf, buflen, pos)
       IN /\ res' = h.r
          /\ pos' = h.pos
    /\ op' = "header"
    /\ UNCHANGED <<packet, dest, enc, buf, buflen, sent, rcvd>>

\* the caller hands the same bytes to header.rs's read_header and to
\* decoder.rs's, and the first byte to Header::try_from and to Header::new
ReadBothHeaders ==
    /\ op = "loaded"
    /\ LET h == read_header(buf, buflen, pos)
       IN /\ res' = h.r
          /\ pos' = h.pos
    /\ enc' = header_read_header(buf, buflen, 1, 0)
    /\ packet' = [typ |-> "first byte",
                  new |-> Header_new(At(buf, 0)),
                  try_from |-> Header_try_from(At(buf, 0))]
    /\ op' = "headers"
    /\ UNCHANGED <<dest, buf, buflen, sent, rcvd>>

DecodeBytes ==
    /\ op = "loaded"
    /\ buflen <= MaxCap
    /\ LET d == decode(buf, buflen, pos)
       IN /\ res' = d.r
          /\ pos' = d.pos
    /\ op' = "decoded"
    /\ UNCHANGED <<packet, dest, enc, buf, buflen, sent, rcvd>>

NextWire ==
    \/ Load
    \/ ReadHeader
    \/ DecodeBytes
    \/ ReadBothHeaders

SpecWire == Init /\ [][NextWire]_vars

(***************************************************************************)
(* Claims about read_header and decode on loaded bytes, under SpecWire.    *)
(* What MQTT 3.1.1 says of a first byte and of a length field is stated    *)
(* here on its own, without the operators that model the decoder.          *)
(***************************************************************************)
QosBits(hd) == (hd \div 2) % 4

LegalFirstByte(hd) ==
    \/ (hd \div 16) \in {1, 2, 4, 5, 7, 9, 11, 12, 13, 14} /\ hd % 16 = 0
    \/ (hd \div 16) \in {6, 8, 10} /\ hd % 16 = 2
    \/ (hd \div 16) = 3 /\ QosBits(hd) # 3

HeaderOf(hd) ==
    [typ |-> PacketTypes[hd \div 16],
     dup |-> (hd \div 8) % 2 = 1,
     qos |-> CASE QosBits(hd) = 0 -> "AtMostOnce"
               [] QosBits(hd) = 1 -> "AtLeastOnce"
               [] QosBits(hd) = 2 -> "ExactlyOnce",
     retain |-> hd % 2 = 1]

SomeHeader(hd, len) == [kind |-> "Some", header |-> HeaderOf(hd), len |-> len]

\* the j-th byte after the first is there / has its continuation bit set
Avail(j) == j < buflen
Cont(j) == At(buf, j) >= 128

\* the length field ends at its j-th byte
EndsAt(j) == Avail(j) /\ ~Cont(j) /\ \A i \in 1..(j - 1) : Cont(i)

RECURSIVE VarInt(_)
VarInt(j) ==
    IF j = 0 THEN 0 ELSE VarInt(j - 1) + (At(buf, j) % 128) * 128 ^ (j - 1)

\* C7: after a first byte followed by remaining length 0, read_header gives
\* the header fields for each of the 25 legal first bytes, InvalidQos(3) for
\* a Publish byte with QoS bits 11 and InvalidHeader for every other byte,
\* the buffer [0,0,0,0] among them.
C7_FirstByte ==
    /\ op = "init" => Cardinality({hd \in 0..255 : Header_new(hd).kind = "Ok"}) = 25
    /\ (op = "header" /\ buflen >= 2 /\ At(buf, 1) = 0)
           => CASE LegalFirstByte(buf[1]) -> res = SomeHeader(buf[1], 0)
                [] (buf[1] \div 16) = 3 /\ QosBits(buf[1]) = 3 ->
                       res = Err(InvalidQos(3))
                [] OTHER -> res = Err(InvalidHeader)

C7_Witness ==
    /\ op = "header"
    /\ buf = <<0, 0, 0, 0>>
    /\ res = Err(InvalidHeader)

\* C9: after a legal first byte, read_header gives Ok(None) when the length
\* field is cut off or the buffer is shorter than 1 + length bytes + length,
\* Some((header, len)) with len the sum of (byte_i & 0x7F) * 128^i when the
\* whole packet is there, minimal encoding or not, and InvalidHeader when
\* four length bytes in a row have the continuation bit.
C9_RemainingLength ==
    (op = "header" /\ buflen >= 1 /\ Len(buf) >= 1 /\ LegalFirstByte(buf[1]))
        => IF \E j \in 1..4 : EndsAt(j)
           THEN LET j == CHOOSE k \in 1..4 : EndsAt(k)
                IN IF buflen >= 1 + j + VarInt(j)
                   THEN res = SomeHeader(buf[1], VarInt(j))
                   ELSE res = NotYet
           ELSE IF \A i \in 1..4 : Avail(i) /\ Cont(i)
                THEN res = Err(InvalidHeader)
                ELSE res = NotYet

\* the non-minimal [0x80, 0x00] read as length 0
C9_Witness ==
    /\ op = "header"
    /\ buf = <<16, 128, 0>>
    /\ res = SomeHeader(16, 0)

\* C10: read_header moves the read position only when it returns Some, by
\* 1 + the number of length bytes; on Ok(None) and on every error the
\* position is still at the first byte of the packet.
C10_Position ==
    op = "header"
        => IF res.kind = "Some"
           THEN \E j \in 1..4 : EndsAt(j) /\ pos = 1 + j
           ELSE pos = 0

\* C4: a complete packet whose body decoder would use fewer or more bytes
\* than the remaining length is answered with InvalidLength: Pingreq,
\* Pingresp and Disconnect with a remaining length other than 0, Connack and
\* the Pid-only packets with a remaining length other than 2.
C4_ExactBody ==
    (op = "decoded" /\ Len(buf) >= 2 /\ LegalFirstByte(buf[1])
        /\ buf[2] < 128 /\ buflen >= 2 + buf[2])
        => LET typ == PacketTypes[buf[1] \div 16]
           IN /\ (typ \in {"Pingreq", "Pingresp", "Disconnect"} /\ buf[2] # 0)
                    => res = Err(InvalidLength)
              /\ (typ \in {"Connack", "Puback", "Pubrec", "Pubrel", "Pubcomp",
                           "Unsuback"} /\ buf[2] # 2)
                    => res = Err(InvalidLength)

(***************************************************************************)
(* write_length on its own: a header byte and the length field of a body   *)
(* of len bytes are written into a destination of cap bytes, and           *)
(* read_header reads the field back from the destination.                  *)
(***************************************************************************)
Boundaries == {0, 127, 128, 16383, 16384, 2097151, 2097152, 268435455}

Lengths ==
    Boundaries
    \cup {1, 2, 64, 126, 129, 255, 256, 300, 10000, 16382, 16385, 65535, 65536,
          2097150, 2097153, 16777216, 268435454}
    \cup {268435456, 268435457, 300000000, 2147483000}

WriteLength ==
    /\ op = "init"
    /\ \E len \in Lengths : \E room \in 0..(MaxLenBytes + MaxSlack) :
         LET r == write_length(write_u8(Writer(1 + len + room), 16), len)
         IN /\ packet' = [typ |-> "length", len |-> len]
            /\ dest' = [cap |-> 1 + len + room, out |-> r.w.out]
            /\ enc' = Outcome(r)
    /\ op' = "length"
    /\ UNCHANGED <<buf, buflen, pos, res, sent, rcvd>>

ReadBack ==
    /\ op = "length"
    /\ enc.kind = "Ok"
    /\ buf' = dest.out
    /\ buflen' = dest.cap
    /\ LET h == read_header(dest.out, dest.cap, 0)
       IN /\ res' = h.r
          /\ pos' = h.pos
    /\ op' = "readback"
    /\ UNCHANGED <<packet, dest, enc, sent, rcvd>>

NextLength ==
    \/ WriteLength
    \/ ReadBack

SpecLength == Init /\ [][NextLength]_vars

\* the least number of 7-bit groups that hold len
MinimalBytes(len) == CHOOSE k \in 1..4 : len < 128 ^ k /\ (k = 1 \/ len >= 128 ^ (k - 1))

BoundaryBytes ==
    [len \in Boundaries |->
        CASE len \in {0, 127} -> 1
          [] len \in {128, 16383} -> 2
          [] len \in {16384, 2097151} -> 3
          [] len \in {2097152, 268435455} -> 4]

\* C8: write_length writes the eight boundary lengths in 1,1,2,2,3,3,4,4
\* bytes, writes every length up to 268435455 in the minimal number of
\* bytes, which read_header reads back as the same length, and answers a
\* length of 268435456 or more with InvalidLength.
C8_VarInt ==
    /\ (op \in {"length", "readback"} /\ packet.len >= 268435456)
           => enc = Err(InvalidLength)
    /\ (op \in {"length", "readback"} /\ packet.len <= 268435455)
           => IF dest.cap - 1 >= packet.len + MinimalBytes(packet.len)
              THEN /\ enc = [kind |-> "Ok", n |-> packet.len + MinimalBytes(packet.len)]
                   /\ Len(dest.out) = 1 + MinimalBytes(packet.len)
                   /\ packet.len \in Boundaries
                          => Len(dest.out) - 1 = BoundaryBytes[packet.len]
              ELSE enc = Err(WriteZero)
    /\ op = "readback"
           => /\ res = [kind |-> "Some", header |-> Header_new(16).val,
                        len |-> packet.len]
              /\ pos = Len(dest.out)

C8_Witness ==
    /\ op = "readback"
    /\ packet.len = 268435455
    /\ dest.out = <<16, 255, 255, 255, 127>>
    /\ res.kind = "Some"
    /\ res.len = 268435455

(***************************************************************************)
(* Two frames back to back, the first built by hand, and two decode calls. *)
(* sent holds the two frames, rcvd what each decode call gave and where it *)
(* left the read position.                                                 *)
(***************************************************************************)
\* the Connect of test inner_length_too_long: a password of declared length 3
\* with two bytes left
InnerLengthTooLong ==
    <<16, 20, 0, 4, 77, 81, 84, 84, 4, 64, 0, 10, 0, 4, 116, 101, 115, 116,
      0, 3, 109, 113>>

\* the Publish frames of test_publish under every Publish first byte: topic
\* "a/b" then "hello", and topic "a/b", two bytes 0 10, then "hello"
PublishFrames ==
    {<<hd, 10, 0, 3, 97, 47, 98>> \o PayloadHello : hd \in 48..63}
    \cup {<<hd, 12, 0, 3, 97, 47, 98, 0, 10>> \o PayloadHello : hd \in 48..63}

\* the Connack frame of test_connack under several flag and code bytes
ConnackFrames ==
    {<<32, 2, flags, code>> : flags \in {0, 1, 2, 255}, code \in {0, 1, 2, 3, 4, 5, 6, 255}}

\* the frames of test_pub_ack .. test_unsub_ack under several Pid bytes
PidFrames ==
    {<<hd, 2, hi, lo>> : hd \in {64, 80, 98, 112, 176}, hi \in {0, 1, 255}, lo \in {0, 10, 255}}

FollowFrames == {<<>>, <<192, 0>>, <<64, 2, 0, 10>>}

LoadFrames ==
    /\ op = "init"
    /\ \E first \in FrameInputs \cup {InnerLengthTooLong} \cup PublishFrames
                     \cup ConnackFrames \cup PidFrames :
       \E next \in FollowFrames :
         /\ sent' = <<first, next>>
         /\ buf' = first \o next
         /\ buflen' = Len(first) + Len(next)
    /\ op' = "frames"
    /\ UNCHANGED <<packet, dest, enc, pos, res, rcvd>>

DecodeFrame ==
    /\ \/ op = "frames"
       \/ op = "frame1" /\ res.kind \in {"Some", "Err"}
    /\ LET d == decode(buf, buflen, pos)
       IN /\ res' = d.r
          /\ pos' = d.pos
          /\ rcvd' = Append(rcvd, d)
    /\ op' = IF op = "frames" THEN "frame1" ELSE "frame2"
    /\ UNCHANGED <<packet, dest, enc, buf, buflen, sent>>

\* the caller encodes the Connack or Pid packet the first decode returned
EncodeBack ==
    /\ op = "frame1"
    /\ res.kind = "Some"
    /\ res.packet.typ \in {"Connack", "Puback", "Pubrec", "Pubrel", "Pubcomp", "Unsuback"}
    /\ \E cap \in 0..(4 + MaxSlack) :
         LET r == encode_slice(res.packet, cap)
         IN /\ packet' = res.packet
            /\ dest' = [cap |-> cap, out |-> r.w.out]
            /\ enc' = Outcome(r)
    /\ op' = "encoded"
    /\ UNCHANGED <<buf, buflen, pos, res, sent, rcvd>>

\* the caller takes pid() and qos() of the QosPid of a decoded Publish
QosPidParts ==
    /\ op = "frame1"
    /\ res.kind = "Some"
    /\ res.packet.typ = "Publish"
    /\ packet' = res.packet
    /\ enc' = [kind |-> "qospid",
               pid |-> QosPid_pid(res.packet.qospid),
               qos |-> QosPid_qos(res.packet.qospid)]
    /\ op' = "qospid"
    /\ UNCHANGED <<dest, buf, buflen, pos, res, sent, rcvd>>

NextFrames ==
    \/ LoadFrames
    \/ DecodeFrame
    \/ EncodeBack
    \/ QosPidParts

SpecFrames == Init /\ [][NextFrames]_vars

\* the outcome of decode on a buffer that holds frame f alone
Alone(f) == decode(f, Len(f), 0)

\* C11: when the header is valid, the packet complete and the body decoder
\* fails, decode returns the error with the buffer advanced past the whole
\* packet: the buffer is empty if it held only that packet, and the next
\* decode gives what the following packet gives on its own.
C11_ErrorAdvances ==
    /\ (op = "frame1" /\ res.kind = "Err" /\ LegalFirstByte(sent[1][1]))
           => /\ pos = Len(sent[1])
              /\ sent[2] = <<>> => pos = buflen
    /\ (op = "frame2" /\ rcvd[1].r.kind = "Err" /\ LegalFirstByte(sent[1][1]))
           => /\ res = Alone(sent[2]).r
              /\ pos = Len(sent[1]) + Alone(sent[2]).pos

C11_Witness ==
    /\ op = "frame2"
    /\ sent = <<InnerLengthTooLong, <<64, 2, 0, 10>>>>
    /\ rcvd[1] = Outcome_at(Err(InvalidLength), 22)
    /\ res = SomePacket([typ |-> "Puback", pid |-> 10])
    /\ pos = 26

\* C12: when the first byte is an illegal type/flag combination and the
\* length field is complete, read_header and decode return the header error
\* (InvalidQos(3) for Publish with QoS bits 11, else InvalidHeader) however
\* few body bytes are there, never Ok(None).
C12_BadHeaderFirst ==
    (op \in {"header", "decoded"} /\ Len(buf) >= 1 /\ ~LegalFirstByte(buf[1])
        /\ \E j \in 1..4 : EndsAt(j))
        => res = IF (buf[1] \div 16) = 3 THEN Err(InvalidQos(3))
                 ELSE Err(InvalidHeader)

(***************************************************************************)
(* A length-prefixed field on its own: read_bytes or read_string is called *)
(* on a packet body with the cursor somewhere in it.  packet holds the     *)
(* cursor before the call.                                                 *)
(***************************************************************************)
FieldBytes == {0, 1, 2, 97, 200}

LoadField ==
    /\ op = "init"
    /\ \E b \in SeqsUpTo(FieldBytes, MaxField) : \E off \in 0..Len(b) :
         /\ buf' = b
         /\ buflen' = Len(b)
         /\ pos' = off
         /\ packet' = [typ |-> "field", off |-> off]
    /\ op' = "field"
    /\ UNCHANGED <<dest, enc, res, sent, rcvd>>

\* where the cursor is after a read of b at off: get_u16 has consumed the
\* prefix when the length check fails, and read_bytes the whole field when
\* the UTF-8 check fails
CursorAfter(r, b, off) ==
    CASE r.kind = "Ok" -> r.off
      [] r = Err(InvalidString) -> off + 2 + (b[off + 1] * 256 + b[off + 2])
      [] r.kind = "Err" -> off + 2
      [] OTHER -> off

ReadBytes ==
    /\ op = "field"
    /\ res' = read_bytes(buf, pos)
    /\ pos' = CursorAfter(read_bytes(buf, pos), buf, pos)
    /\ op' = "bytes"
    /\ UNCHANGED <<packet, dest, enc, buf, buflen, sent, rcvd>>

ReadString ==
    /\ op = "field"
    /\ res' = read_string(buf, pos)
    /\ pos' = CursorAfter(read_string(buf, pos), buf, pos)
    /\ op' = "string"
    /\ UNCHANGED <<packet, dest, enc, buf, buflen, sent, rcvd>>

NextField ==
    \/ LoadField
    \/ ReadBytes
    \/ ReadString

SpecField == Init /\ [][NextField]_vars

\* the length the two prefix bytes at the cursor declare, big-endian
Declared == buf[packet.off + 1] * 256 + buf[packet.off + 2]

\* C13: when the 2-byte big-endian prefix declares more bytes than remain in
\* the body, the read returns InvalidLength; otherwise the field is exactly
\* the declared number of bytes after the prefix and the cursor advances by
\* 2 + that length (a string must also be UTF-8, else InvalidString).
C13_LengthPrefix ==
    (op \in {"bytes", "string"} /\ Len(buf) - packet.off >= 2)
        => IF Declared > Len(buf) - packet.off - 2
           THEN res = Err(InvalidLength)
           ELSE \/ /\ res.kind = "Ok"
                   /\ Len(res.val) = Declared
                   /\ \A i \in 1..Declared : res.val[i] = buf[packet.off + 2 + i]
                   /\ pos = packet.off + 2 + Declared
                \/ /\ op = "string"
                   /\ res = Err(InvalidString)
                   /\ \E i \in 1..Declared : buf[packet.off + 2 + i] >= 128

C13_Witness ==
    /\ op = "bytes"
    /\ buf = <<0, 0, 2, 97, 200>>
    /\ packet.off = 1
    /\ res.kind = "Ok"
    /\ res.val = <<97, 200>>
    /\ pos = 5

\* what MQTT says of the entries of a Subscribe, Unsubscribe or Suback
\* body: whether the bytes s are a whole number of well-formed entries
RECURSIVE WellFormedEntries(_, _)
WellFormedEntries(typ, s) ==
    IF s = <<>> THEN TRUE
    ELSE IF typ = "Suback"
         THEN s[1] \in {0, 1, 2, 128} /\ WellFormedEntries(typ, Tail(s))
    ELSE LET extra == IF typ = "Subscribe" THEN 1 ELSE 0
             n == IF Len(s) >= 2 THEN s[1] * 256 + s[2] ELSE 0
         IN /\ Len(s) >= 2 + n + extra
            /\ Utf8Valid(SubSeq(s, 3, 2 + n))
            /\ typ = "Subscribe" => s[2 + n + 1] <= 2
            /\ WellFormedEntries(typ, SubSeq(s, 2 + n + extra + 1, Len(s)))

\* C14: decoding a complete Subscribe, Suback or Unsubscribe succeeds only
\* when the bytes after the Pid are a whole number of well-formed entries
\* (no truncated topic, no missing or invalid QoS byte, no unknown return
\* code); a malformed entry is an error, never silently dropped.
C14_EntriesChecked ==
    (op = "decoded" /\ res.kind = "Some"
        /\ res.packet.typ \in {"Subscribe", "Suback", "Unsubscribe"})
        => WellFormedEntries(res.packet.typ,
                             SubSeq(buf, 5, 2 + buf[2]))

\* C15: for every Connect the encoder wrote, the decoder reads the flags
\* byte as the same clean_session, the same presence of last_will, username
\* and password and the same will QoS and retain, and reads the optional
\* fields in the order they were written, so each comes back with its value.
C15_FlagsAgree ==
    (op = "decode" /\ packet.typ = "Connect" /\ enc.kind = "Ok" /\ buflen = enc.n)
        => /\ res.kind = "Some"
           /\ res.packet.typ = "Connect"
           /\ res.packet.clean_session = packet.clean_session
           /\ res.packet.last_will.some = packet.last_will.some
           /\ res.packet.username.some = packet.username.some
           /\ res.packet.password.some = packet.password.some
           /\ packet.last_will.some
                  => /\ res.packet.last_will.val.qos = packet.last_will.val.qos
                     /\ res.packet.last_will.val.retain = packet.last_will.val.retain
                     /\ res.packet.last_will.val.topic = packet.last_will.val.topic
                     /\ res.packet.last_will.val.message = packet.last_will.val.message
           /\ packet.username.some => res.packet.username.val = packet.username.val
           /\ packet.password.some => res.packet.password.val = packet.password.val

\* C16: when the body of a Connect frame holds a readable protocol name and
\* a level byte, the pairs ("MQTT", 4) and ("MQIsdp", 3) are accepted, and
\* every other pair fails with InvalidProtocol carrying the received name and
\* the received level.
C16_ProtocolPair ==
    (op = "frame1" /\ buf[1] = 16)
        => LET body == SubSeq(buf, 3, 2 + buf[2])
               name == IF Len(body) >= 2 THEN read_string(body, 0) ELSE Panic
           IN (name.kind = "Ok" /\ name.off < Len(body))
                  => LET level == body[name.off + 1]
                     IN IF \/ (name.val = NameMQTT /\ level = 4)
                           \/ (name.val = NameMQIsdp /\ level = 3)
                        THEN ~(res.kind = "Err" /\ res.err.name = "InvalidProtocol")
                        ELSE res = Err(InvalidProtocol(name.val, level))

\* the bytes of scenario A with a given remaining-length byte
ScenarioA(remaining) ==
    <<16, remaining, 0, 4, 77, 81, 84, 84, 4, 2, 0, 30, 0, 10>> \o DocClient

\* C17: encoding the MQTT311 Connect with keep_alive 30, client id
\* "doc_client", clean session and no will, username or password into a
\* destination of at least 24 bytes succeeds with 24 bytes written: header
\* 0x10, remaining length 22, 00 04 "MQTT" 04, flags 02, keep-alive 00 1E,
\* then 00 0A and "doc_client".
C17_ScenarioA ==
    (op = "encode" /\ packet = DocConnect("MQTT311") /\ dest.cap >= 24)
        => /\ enc = [kind |-> "Ok", n |-> 24]
           /\ dest.out = ScenarioA(22)

C17_Witness ==
    /\ op = "encode"
    /\ packet = DocConnect("MQTT311")
    /\ dest.cap >= 24
    /\ enc.kind = "Ok"
    /\ dest.out[2] = 22

\* C17 as first stated: the same scenario with remaining length 12
C17_RemainingTwelve ==
    (op = "encode" /\ packet = DocConnect("MQTT311") /\ dest.cap >= 24)
        => /\ enc.kind = "Ok"
           /\ dest.out = ScenarioA(12)

\* the Publish a frame with first byte hd, remaining length rl and a
\* one-byte length field holds, read off the bytes: the topic is the tl
\* bytes after its two-byte length, the Pid the next two bytes when the QoS
\* bits are not 0, the payload what is left of the rl bytes
PublishOf(hd, rl) ==
    LET tl == buf[3] * 256 + buf[4]
        after == IF QosBits(hd) = 0 THEN 4 + tl ELSE 6 + tl
        pid == buf[5 + tl] * 256 + buf[6 + tl]
    IN [typ |-> "Publish",
        dup |-> (hd \div 8) % 2 = 1,
        qospid |-> CASE QosBits(hd) = 0 -> [qos |-> "AtMostOnce"]
                     [] QosBits(hd) = 1 -> [qos |-> "AtLeastOnce", pid |-> pid]
                     [] QosBits(hd) = 2 -> [qos |-> "ExactlyOnce", pid |-> pid],
        retain |-> hd % 2 = 1,
        topic_name |-> SubSeq(buf, 5, 4 + tl),
        payload |-> SubSeq(buf, after + 1, 2 + rl)]

\* the frame holds a whole Publish: the topic and, when the QoS bits are not
\* 0, a nonzero Pid fit in the rl bytes, and the topic is UTF-8
HoldsPublish(hd, rl) ==
    /\ rl >= 2
    /\ LET tl == buf[3] * 256 + buf[4]
       IN /\ 2 + tl <= rl
          /\ Utf8Valid(SubSeq(buf, 5, 4 + tl))
          /\ QosBits(hd) # 0
                 => /\ 4 + tl <= rl
                    /\ buf[5 + tl] * 256 + buf[6 + tl] # 0

\* C18: decoding a complete Publish frame gives dup, retain and the QoS from
\* bits 3, 0 and 1-2 of the first byte, the length-prefixed topic, a Pid
\* from the next two bytes exactly when the QoS is not AtMostOnce, and as
\* payload the rest of the remaining-length span, and consumes the frame;
\* the frame 0x30 10 00 03 "a/b" "hello" gives topic "a/b", payload "hello",
\* no dup, no retain, AtMostOnce, with 12 bytes consumed.
C18_PublishDecode ==
    /\ (op = "frame1" /\ buf[1] \div 16 = 3 /\ QosBits(buf[1]) # 3
            /\ HoldsPublish(buf[1], buf[2]))
           => /\ res = SomePacket(PublishOf(buf[1], buf[2]))
              /\ pos = 2 + buf[2]
    /\ (op = "frame1" /\ sent[1] = <<48, 10, 0, 3, 97, 47, 98>> \o PayloadHello)
           => /\ res = SomePacket([typ |-> "Publish", dup |-> FALSE,
                                   qospid |-> QosPid_AtMostOnce, retain |-> FALSE,
                                   topic_name |-> <<97, 47, 98>>,
                                   payload |-> PayloadHello])
              /\ pos = 12

C18_Witness ==
    /\ op = "frame1"
    /\ sent[1] = <<61, 12, 0, 3, 97, 47, 98, 0, 10>> \o PayloadHello
    /\ res.kind = "Some"
    /\ res.packet.dup /\ res.packet.retain
    /\ res.packet.qospid = QosPid_ExactlyOnce(10)
    /\ res.packet.payload = PayloadHello
    /\ pos = 14

\* the Connack a flags byte and a return-code byte of 0..5 stand for
ConnackOf(flags, code) ==
    [typ |-> "Connack",
     session_present |-> flags % 2 = 1,
     code |-> CASE code = 0 -> "Accepted"
                [] code = 1 -> "RefusedProtocolVersion"
                [] code = 2 -> "RefusedIdentifierRejected"
                [] code = 3 -> "ServerUnavailable"
                [] code = 4 -> "BadUsernamePassword"
                [] code = 5 -> "NotAuthorized"]

\* C19: decoding the frame 0x20 2 flags code gives session_present = bit 0
\* of flags and the return code that code 0..5 stands for, and fails with
\* InvalidConnectReturnCode(code) when code is 6 or more; encoding a Connack
\* into four bytes or more writes exactly 0x20, 2, the session-present bit
\* and the code and returns 4, so that each of the 12 Connack values comes
\* back from the bytes written for it.
C19_Connack ==
    /\ (op = "frame1" /\ sent[1] \in ConnackFrames)
           => IF buf[4] >= 6
              THEN res = Err(InvalidConnectReturnCode(buf[4]))
              ELSE res = SomePacket(ConnackOf(buf[3], buf[4])) /\ pos = 4
    /\ (op = "encoded" /\ packet.typ = "Connack" /\ dest.cap >= 4)
           => /\ enc = [kind |-> "Ok", n |-> 4]
              /\ \E flags \in {0, 1} : \E code \in 0..5 :
                    /\ packet = ConnackOf(flags, code)
                    /\ dest.out = <<32, 2, flags, code>>
              /\ decode(dest.out, 4, 0) = Outcome_at(SomePacket(packet), 4)

C19_Witness ==
    /\ op = "encoded"
    /\ sent[1] = <<32, 2, 255, 5>>
    /\ packet = [typ |-> "Connack", session_present |-> TRUE, code |-> "NotAuthorized"]
    /\ enc = [kind |-> "Ok", n |-> 4]
    /\ dest.out = <<32, 2, 1, 5>>

\* the first byte of each packet that carries a Pid alone
PidFirstByte(typ) ==
    CASE typ = "Puback" -> 64
      [] typ = "Pubrec" -> 80
      [] typ = "Pubrel" -> 98
      [] typ = "Pubcomp" -> 112
      [] typ = "Unsuback" -> 176

PidTypes == {"Puback", "Pubrec", "Pubrel", "Pubcomp", "Unsuback"}

\* C20: Puback, Pubrec, Pubrel, Pubcomp and Unsuback encode to exactly the
\* four bytes first byte, 2, Pid high byte, Pid low byte, with first bytes
\* 0x40, 0x50, 0x62, 0x70 and 0xB0, and decoding such a frame gives the
\* packet of that type with the Pid the two body bytes spell big-endian, or
\* InvalidPid when they spell 0.
C20_PidPackets ==
    /\ (op = "frame1" /\ sent[1] \in PidFrames)
           => LET value == buf[3] * 256 + buf[4]
              IN IF value = 0
                 THEN res = Err(InvalidPid)
                 ELSE /\ \E typ \in PidTypes :
                            /\ PidFirstByte(typ) = buf[1]
                            /\ res = SomePacket([typ |-> typ, pid |-> value])
                      /\ pos = 4
    /\ (op = "encoded" /\ packet.typ \in PidTypes /\ dest.cap >= 4)
           => /\ enc = [kind |-> "Ok", n |-> 4]
              /\ dest.out = <<PidFirstByte(packet.typ), 2,
                              packet.pid \div 256, packet.pid % 256>>

C20_Witness ==
    /\ op = "encoded"
    /\ sent[1] = <<98, 2, 1, 10>>
    /\ packet = [typ |-> "Pubrel", pid |-> 266]
    /\ enc = [kind |-> "Ok", n |-> 4]
    /\ dest.out = <<98, 2, 1, 10>>

(***************************************************************************)
(* A session that makes a Pid from a u16 and then steps it forward and     *)
(* backward.  packet holds the last operation and its operands, res its    *)
(* result, pos the number of steps taken.                                  *)
(***************************************************************************)
PidInputs == {0, 1, 2, 10, 100, 65534, 65535}
PidOffsets == {0, 1, 2, 3, 32768, 65534, 65535}

PidTryFrom ==
    /\ op = "init"
    /\ \E u \in PidInputs :
         /\ packet' = [typ |-> "try_from", u |-> u]
         /\ res' = Pid_try_from(u)
    /\ op' = "pid"
    /\ UNCHANGED <<dest, enc, buf, buflen, pos, sent, rcvd>>

PidAdd ==
    /\ op = "pid"
    /\ res.kind = "Ok"
    /\ pos < MaxSteps
    /\ \E u \in PidOffsets :
         /\ packet' = [typ |-> "add", p |-> res.val, u |-> u]
         /\ res' = Pid_add(res.val, u)
    /\ pos' = pos + 1
    /\ UNCHANGED <<op, dest, enc, buf, buflen, sent, rcvd>>

PidSub ==
    /\ op = "pid"
    /\ res.kind = "Ok"
    /\ pos < MaxSteps
    /\ \E u \in PidOffsets :
         /\ packet' = [typ |-> "sub", p |-> res.val, u |-> u]
         /\ res' = Pid_sub(res.val, u)
    /\ pos' = pos + 1
    /\ UNCHANGED <<op, dest, enc, buf, buflen, sent, rcvd>>

\* the caller reads a QoS from a byte and, when there is one, turns it back
\* into a byte
QosFromU8 ==
    /\ op = "init"
    /\ \E byte \in 0..255 :
         LET q == QoS_from_u8(byte)
         IN /\ packet' = [typ |-> "from_u8", byte |-> byte]
            /\ res' = q
            /\ enc' = IF q.kind = "Ok"
                      THEN [kind |-> "to_u8", n |-> QoS_to_u8(q.val)]
                      ELSE NoOutcome
    /\ op' = "qos"
    /\ UNCHANGED <<dest, buf, buflen, pos, sent, rcvd>>

NextPid ==
    \/ PidTryFrom
    \/ PidAdd
    \/ PidSub
    \/ QosFromU8

SpecPid == Init /\ [][NextPid]_vars

\* C21: try_from(0) fails with InvalidPid, try_from(u) for u in 1..65535
\* gives the Pid of value u, and after every sequence of additions and
\* subtractions of u16 offsets the result is a Pid in 1..65535, never 0 and
\* never an abort.
C21_PidNonZero ==
    op = "pid"
        => IF packet.typ = "try_from"
           THEN res = (IF packet.u = 0 THEN Err(InvalidPid) ELSE Ok(packet.u))
           ELSE res.kind = "Ok" /\ res.val \in 1..65535

C21_Witness ==
    /\ op = "pid"
    /\ pos = MaxSteps
    /\ packet = [typ |-> "sub", p |-> 65535, u |-> 65535]
    /\ res = Ok(65535)

\* C22: p + d is ((p - 1 + d) mod 65535) + 1 and p - d is
\* ((p - 1 - d) mod 65535) + 1: 65535 + 1 = 1, 1 - 1 = 65535, 1 - 2 = 65534,
\* and adding or subtracting 0 or 65535 gives p.
C22_PidCycle ==
    /\ (op = "pid" /\ packet.typ = "add")
           => /\ res = Ok(((packet.p - 1 + packet.u) % 65535) + 1)
              /\ (packet.p = 65535 /\ packet.u = 1) => res = Ok(1)
              /\ packet.u \in {0, 65535} => res = Ok(packet.p)
    /\ (op = "pid" /\ packet.typ = "sub")
           => /\ res = Ok(((packet.p - 1 - packet.u) % 65535) + 1)
              /\ (packet.p = 1 /\ packet.u = 1) => res = Ok(65535)
              /\ (packet.p = 1 /\ packet.u = 2) => res = Ok(65534)
              /\ packet.u \in {0, 65535} => res = Ok(packet.p)

C22_Witness ==
    /\ op = "pid"
    /\ packet = [typ |-> "add", p |-> 65535, u |-> 1]
    /\ res = Ok(1)

\* C23: for the QosPid of every Publish that decode returned, pid() is None
\* exactly when qos() is AtMostOnce and otherwise Some of a Pid in 1..65535;
\* the QosPid is AtMostOnce exactly when the QoS bits of the first byte are
\* 00, and otherwise carries the Pid spelled by the two bytes after the
\* topic.
C23_QosPidPairing ==
    op = "qospid"
        => LET tl == buf[3] * 256 + buf[4]
           IN /\ enc.pid = None <=> enc.qos = "AtMostOnce"
              /\ enc.qos # "AtMostOnce"
                     => /\ enc.pid.some
                        /\ enc.pid.val \in 1..65535
                        /\ enc.pid.val = buf[5 + tl] * 256 + buf[6 + tl]
              /\ enc.qos = "AtMostOnce" <=> QosBits(buf[1]) = 0
              /\ enc.qos = "AtLeastOnce" <=> QosBits(buf[1]) = 1
              /\ enc.qos = "ExactlyOnce" <=> QosBits(buf[1]) = 2

C23_Witness ==
    /\ op = "qospid"
    /\ sent[1] = <<50, 12, 0, 3, 97, 47, 98, 0, 10>> \o PayloadHello
    /\ enc.qos = "AtLeastOnce"
    /\ enc.pid = Some(10)

\* C24: from_u8 gives AtMostOnce, AtLeastOnce, ExactlyOnce for 0, 1, 2 and
\* fails with InvalidQos(n) for every other byte n; to_u8 gives back the
\* byte of each of the three levels, and from_u8 of that byte the level.
C24_QosBits ==
    op = "qos"
        => /\ res = CASE packet.byte = 0 -> Ok("AtMostOnce")
                      [] packet.byte = 1 -> Ok("AtLeastOnce")
                      [] packet.byte = 2 -> Ok("ExactlyOnce")
                      [] OTHER -> Err(InvalidQos(packet.byte))
           /\ res.kind = "Ok"
                  => /\ enc = [kind |-> "to_u8", n |-> packet.byte]
                     /\ QoS_from_u8(enc.n) = res

C24_Witness ==
    /\ op = "qos"
    /\ packet.byte = 130
    /\ res = Err(InvalidQos(130))

\* the name and the level of each Protocol value
ProtocolName(protocol) == IF protocol = "MQTT311" THEN NameMQTT ELSE NameMQIsdp
ProtocolLevel(protocol) == IF protocol = "MQTT311" THEN 4 ELSE 3

\* C25: in every encoded Connect the protocol field is the two-byte length
\* of the name, the name and the level (00 04 "MQTT" 04 for MQTT311,
\* 00 06 "MQIsdp" 03 for MQIsdp), Protocol::from_buffer reads the written
\* field back as the same Protocol, and the remaining length counts the
\* protocol field with the bytes written for it, so that it is the number
\* of bytes that follow the length field.
C25_ProtocolWire ==
    (op = "encode" /\ packet.typ = "Connect" /\ enc.kind = "Ok")
        => LET name == ProtocolName(packet.protocol)
               field == <<0, Len(name)>> \o name \o <<ProtocolLevel(packet.protocol)>>
               wire == SubSeq(dest.out, 3, 2 + Len(Protocol_wire(packet.protocol)))
           IN /\ wire = field
              /\ Protocol_from_buffer(wire, 0) = OkAt(packet.protocol, Len(wire))
              /\ dest.out[2] = Len(dest.out) - 2

\* C26: decode on any bytes returns a packet, "not yet complete" or an
\* error; it never aborts, whatever the body of the packet lacks.
C26_DecodeTotal ==
    op = "decoded" => res.kind \in {"Some", "None", "Err"}

\* the walk of the entry iterator of a Subscribe, Unsubscribe or Suback
EntriesOf(p) ==
    CASE p.typ = "Subscribe" -> Subscribe_topics(p)
      [] p.typ = "Unsubscribe" -> Unsubscribe_topics(p)
      [] p.typ = "Suback" -> Suback_return_codes(p)

EntryBuf(p) == IF p.typ = "Suback" THEN p.return_codes_buf ELSE p.topic_buf

\* C27: the entry iterator of every Suback, Subscribe and Unsubscribe runs
\* to its None without indexing past the end of the entry buffer, giving one
\* item for each entry of a well-formed buffer, and so encoding such a
\* packet into a destination with room for it ends without an abort.
C27_IteratorsEnd ==
    (op = "encode" /\ packet.typ \in {"Suback", "Subscribe", "Unsubscribe"})
        => /\ ~EntriesOf(packet).panic
           /\ (packet.typ = "Suback" /\ WellFormedEntries("Suback", EntryBuf(packet)))
                  => Len(EntriesOf(packet).items) = Len(EntryBuf(packet))
           /\ dest.cap >= 4 + Len(EntryBuf(packet)) => enc.kind # "Panic"

\* C28: the entry iterator of a Subscribe, Unsubscribe or Suback built by
\* its constructor gives exactly the entries supplied, in order, and
\* encoding the packet into a destination with room writes all of them: a
\* remaining length of 2 plus the bytes of the entries.
C28_ConstructorsKeep ==
    op = "new"
        => /\ ~res.panic
           /\ res.items = sent[1]
           /\ dest.cap = MaxCap
                  => /\ enc.kind = "Ok"
                     /\ dest.out[2] = 2 + (CASE packet.typ = "Subscribe" ->
                                                    SumTopicLen(sent[1], 2 + 1)
                                             [] packet.typ = "Unsubscribe" ->
                                                    SumStrLen(sent[1])
                                             [] packet.typ = "Suback" -> Len(sent[1]))

\* C29: on every buffer header.rs's read_header and decoder.rs's give the
\* same outcome: both None, both the same error, or both the same Header and
\* remaining length, with packet_length the number of bytes decoder.rs's
\* consumed plus the remaining length; and Header::try_from and Header::new
\* give the same result for the first byte.
C29_HeadersAgree ==
    op = "headers"
        => /\ packet.try_from = packet.new
           /\ enc.kind = res.kind
           /\ res.kind = "Err" => enc = res
           /\ res.kind = "Some"
                  => /\ enc.header = res.header
                     /\ enc.remaining_length = res.len
                     /\ enc.packet_length = pos + res.len

\* C30: when encode_slice fails with WriteZero or InvalidLength, it has
\* written no byte into the destination.
C30_FailedEncodeClean ==
    (op = "encode" /\ enc.kind = "Err") => dest.out = <<>>

====
